---- MODULE Spec2Model ----
(***************************************************************************)
(* AMeshMergerExporter (src/MeshMergerExporter.cpp): export of one static  *)
(* mesh to a Wavefront OBJ file, a companion MTL file and the textures of  *)
(* its materials.                                                          *)
(*                                                                         *)
(* One export call is a run of the state machine: pc walks through the     *)
(* loops of ExportToOBJ and ExportMaterials in program order.  The inputs  *)
(* (mesh, material slots, textures, output path) are fixed by Init; the    *)
(* outcome of every call on the engine (image wrappers, file writes, bulk  *)
(* data locks) is chosen when the call is made.                            *)
(*                                                                         *)
(* Text is modelled as sequences of lines, a line as a tuple whose first   *)
(* element is the record keyword; names are sequences of one-character     *)
(* strings so that SanitizeFileName works on characters.  Number           *)
(* formatting (%.6f) is not modelled: numbers stand for themselves.        *)
(*                                                                         *)
(* Spec runs ExportToOBJ on meshes, slot lists and textures of every kind; *)
(* PixelSpec, NameSpec, PathSpec and ProbeSpec run the same export on all  *)
(* pixel buffers, names, output paths and material parameters up to the    *)
(* bounds; RequestSpec starts one step earlier, in MergeAndExportMeshes.   *)
(***************************************************************************)
EXTENDS Integers, Sequences, FiniteSets, TLC

\* ------------------------------------------------------------------ bounds
\* Vertex identifiers are drawn from 0..MaxVertexID.
MaxVertexID == 1
\* Vertex-instance identifiers are drawn from 0..MaxInstanceID.
MaxInstanceID == 3
\* Material slot lists have at most MaxSlots entries.
MaxSlots == 2
\* Texture widths and heights are drawn from 0..MaxSize.
MaxSize == 2
\* Pixel buffers hold up to MaxExtra bytes more than MaxSize*MaxSize*4.
MaxExtra == 1
\* Generated material and texture names have up to MaxNameLen characters.
MaxNameLen == 2
\* Generated materials answer for up to MaxParams texture parameter names.
MaxParams == 2

\* ----------------------------------------------------------------- helpers
Min(S) == CHOOSE x \in S : \A y \in S : x <= y

\* Iteration order of a sparse element array: increasing identifier.
RECURSIVE GetElementIDs(_)
GetElementIDs(S) ==
    IF S = {} THEN <<>>
    ELSE LET m == Min(S) IN <<m>> \o GetElementIDs(S \ {m})

RECURSIVE Flatten(_)
Flatten(ss) == IF ss = <<>> THEN <<>> ELSE Head(ss) \o Flatten(Tail(ss))

Range(s) == {s[k] : k \in DOMAIN s}

\* The mutant of Replace: only the first occurrence is replaced.
Replace_First(str, from, to) ==
    [k \in DOMAIN str |->
        IF str[k] = from /\ \A j \in 1..(k - 1) : str[j] # from
        THEN to ELSE str[k]]

\* FString::Replace of a one-character pattern by a one-character text.
Replace(str, from, to) ==
    [k \in DOMAIN str |-> IF str[k] = from THEN to ELSE str[k]]

SanitizeFileName(FileName) ==
    LET r1 == Replace(FileName, " ", "_")
        r2 == Replace(r1, "/", "_")
        r3 == Replace(r2, "\\", "_")
        r4 == Replace(r3, ":", "_")
        r5 == Replace(r4, "*", "_")
        r6 == Replace(r5, "?", "_")
        r7 == Replace(r6, "\"", "_")
        r8 == Replace(r7, "<", "_")
        r9 == Replace(r8, ">", "_")
    IN  Replace(r9, "|", "_")

\* A path is a directory (sequence of directory names, empty when the path
\* names no directory) and a file name: characters and extension tokens,
\* a token standing for a dot and the letters up to the next dot or the
\* end of the name.
Extensions == {".obj", ".mtl", ".gltf", ".GLTF", ".tga", ".bmp", ".b"}
GetPath(Path) == Path.dir
GetCleanFilename(Path) == Path.file
\* FPaths::GetBaseFilename: the name up to its last dot, the whole name
\* when it holds no dot.
GetBaseFilename(file) ==
    LET dots == {k \in DOMAIN file : file[k] \in Extensions}
    IN  IF dots = {} THEN file
        ELSE SubSeq(file, 1, (CHOOSE k \in dots : \A j \in dots : j <= k) - 1)
\* FString::Replace of an extension in a path: every occurrence is
\* replaced, in the directory names as in the file name, and letters
\* match whatever their case.  Directory names are whole strings here;
\* "d.gltf" is the one that holds an extension.
MatchesIgnoreCase(text, from) ==
    \/ text = from
    \/ {text, from} = {".gltf", ".GLTF"}
ReplaceInName(name, from, to) ==
    IF name = "d.gltf" /\ from = ".gltf" /\ to = ".obj" THEN "d.obj" ELSE name
ReplaceInPath(Path, from, to) ==
    [dir |-> [k \in DOMAIN Path.dir |-> ReplaceInName(Path.dir[k], from, to)],
     file |-> [k \in DOMAIN Path.file |->
                  IF MatchesIgnoreCase(Path.file[k], from) THEN to
                  ELSE Path.file[k]]]
\* BasePath + TEXT("/"): below the root when BasePath is empty.
Slash(BasePath) == IF BasePath = <<>> THEN <<"">> ELSE BasePath

\* --------------------------------------------------------------- the inputs
\* Attribute values of the mesh description.  They are functions of the
\* element identifier, so that a record of the output names its element.
VertexPositions(VertexID) == <<10 + VertexID, 20 + VertexID, 30 + VertexID>>
VertexUVs(InstanceID) == <<InstanceID, 2 * InstanceID>>
VertexNormals(InstanceID) == <<40 + InstanceID, 50 + InstanceID, 60 + InstanceID>>

\* --- textures
NullTexture == [isNull |-> TRUE]

Texture2D(name, valid, raw, w, h, fmt, hasMip, mw, mh, bulk) ==
    [isNull |-> FALSE, name |-> name, is2D |-> TRUE,
     SourceValid |-> valid, RawData |-> raw, SizeX |-> w, SizeY |-> h,
     Format |-> fmt,
     HasMips |-> hasMip, MipSizeX |-> mw, MipSizeY |-> mh, BulkData |-> bulk]

\* A texture that is not a UTexture2D (a cube or volume texture).
OtherTexture(name) ==
    [isNull |-> FALSE, name |-> name, is2D |-> FALSE,
     SourceValid |-> FALSE, RawData |-> <<>>, SizeX |-> 0, SizeY |-> 0,
     Format |-> "TSF_Invalid",
     HasMips |-> FALSE, MipSizeX |-> 0, MipSizeY |-> 0, BulkData |-> <<>>]

TexBGRA == Texture2D(<<"T", " ", "a">>, TRUE, <<10, 20, 30, 255>>, 1, 1,
                     "TSF_BGRA8", TRUE, 1, 1, <<1, 2, 3, 4>>)
TexGray == Texture2D(<<"T", "g">>, TRUE, <<7>>, 1, 1, "TSF_G8",
                     FALSE, 0, 0, <<>>)
TexRGBA == Texture2D(<<"T", "r">>, TRUE, <<10, 20, 30, 255>>, 1, 1,
                     "TSF_RGBA8", FALSE, 0, 0, <<>>)
\* A 16-bit source whose buffer is shorter than width*height*4 bytes.
TexShort == Texture2D(<<"T", "s">>, TRUE, <<1, 2>>, 1, 1, "TSF_G16",
                      TRUE, 1, 1, <<1, 2, 3, 4>>)
\* A valid source that delivers no mip data; resident data is present.
TexEmptyMip == Texture2D(<<"T", "e">>, TRUE, <<>>, 1, 1, "TSF_BGRA8",
                         TRUE, 1, 1, <<5, 6, 7, 8>>)
\* No source at all (a cooked build); resident data is present.
TexResident == Texture2D(<<"T", "/", "p">>, FALSE, <<>>, 0, 0, "TSF_Invalid",
                         TRUE, 1, 1, <<5, 6, 7, 8>>)
\* No source, and resident data smaller than width*height*4 (compressed).
TexCompressed == Texture2D(<<"T", "c">>, FALSE, <<>>, 0, 0, "TSF_Invalid",
                           TRUE, 1, 2, <<5, 6, 7, 8>>)
\* No source and no resident data.
TexBroken == Texture2D(<<"T", "x">>, FALSE, <<>>, 0, 0, "TSF_Invalid",
                       FALSE, 0, 0, <<>>)
\* A source of zero width.
TexZero == Texture2D(<<"T", "z">>, TRUE, <<9>>, 0, 1, "TSF_G8",
                     FALSE, 0, 0, <<>>)
TexCube == OtherTexture(<<"T", "q">>)

\* --- materials
\* The texture parameter names probed by ExportMaterials, in probing order.
ParamNames == <<"BaseColor", "Diffuse", "DiffuseTexture",
                "BaseColorTexture", "Texture", "Albedo">>

NullMaterial == [isNull |-> TRUE]

\* params: the texture parameters the material answers for, by name;
\* isInstance: the material is a UMaterialInstanceConstant, and
\* TextureParameterValues is its own list of texture parameter values.
Material(name, params, isInstance, values) ==
    [isNull |-> FALSE, name |-> name, params |-> params,
     isInstance |-> isInstance, TextureParameterValues |-> values]

NoParams == [n \in {} |-> NullTexture]

Untextured(name) == Material(name, NoParams, FALSE, <<>>)
Textured(name, param, tex) ==
    Material(name, [n \in {param} |-> tex], FALSE, <<>>)

MatA == Untextured(<<"A">>)
MatB == Untextured(<<"B", ":", "1">>)

\* --- mesh descriptions
\* Vertices: the vertex identifiers; VertexInstances: vertex-instance
\* identifier -> vertex identifier; Triangles: triangle identifier -> its
\* three vertex-instances; Polygons: in enumeration order, each with its
\* polygon group identifier and its triangle identifiers.
MeshDescription(V, inst, tris, polys) ==
    [Vertices |-> V, VertexInstances |-> inst, Triangles |-> tris,
     Polygons |-> polys]

\* The vertex-instances are the corners of a triangle strip: three
\* successive instances make a triangle, and the k-th instance sits on
\* the k-th vertex, wrapping around.
StripVertices(V, I) ==
    LET vs == GetElementIDs(V)
    IN  [x \in I |-> vs[(Cardinality({y \in I : y < x}) % Len(vs)) + 1]]

StripTriangles(I) ==
    LET ids == GetElementIDs(I)
    IN  IF Len(ids) < 3 THEN <<>>
        ELSE [k \in 1..(Len(ids) - 2) |-> <<ids[k], ids[k + 1], ids[k + 2]>>]

\* The triangles start..n cut into runs that end at the members of C.
RECURSIVE Runs(_, _, _)
Runs(start, n, C) ==
    IF start > n THEN <<>>
    ELSE LET end == Min({e \in (C \cup {n}) : e >= start})
         IN  <<[t \in 1..(end - start + 1) |-> start + t - 1]>>
                 \o Runs(end + 1, n, C)

\* Every way to make polygons of n triangles, with groups taken from G.
PolygonLists(n, G) ==
    UNION { LET runs == Runs(1, n, C)
            IN  {[p \in DOMAIN runs |->
                     [group |-> g[p], triangles |-> runs[p]]] :
                 g \in [DOMAIN runs -> G]}
            : C \in SUBSET (1..(n - 1)) }

MeshDescriptions ==
    {MeshDescription({}, <<>>, <<>>, <<>>)} \cup
    UNION { UNION { {MeshDescription(V, StripVertices(V, I),
                                     StripTriangles(I), polys) :
                     polys \in PolygonLists(Len(StripTriangles(I)),
                                            0..(MaxSlots - 1))}
                    : I \in SUBSET (0..MaxInstanceID) }
            : V \in (SUBSET (0..MaxVertexID)) \ {{}} }

\* One triangle on one vertex, in polygon group 0.
OneTriangle ==
    MeshDescription({0}, StripVertices({0}, {0, 1, 2}),
                    StripTriangles({0, 1, 2}),
                    <<[group |-> 0, triangles |-> <<1>>]>>)

\* --- static meshes
NullMesh == [isNull |-> TRUE]

StaticMesh(name, renderData, hasDesc, desc, materials) ==
    [isNull |-> FALSE, name |-> name, hasRenderData |-> renderData,
     hasMeshDescription |-> hasDesc, desc |-> desc,
     StaticMaterials |-> materials]

\* Slot lists of the geometry cases: slot k is unassigned or carries the
\* material of its position.
SlotMaterial(k) == IF k % 2 = 1 THEN MatA ELSE MatB
PlainSlotLists ==
    UNION { {[k \in 1..n |-> IF k \in S THEN SlotMaterial(k)
                             ELSE NullMaterial] : S \in SUBSET (1..n)}
            : n \in 0..MaxSlots }

\* Slot lists of the material cases.
MatTga == Textured(<<"M", "1">>, "BaseColor", TexBGRA)
MatResident == Textured(<<"M", " ", "2">>, "Diffuse", TexResident)
MatBroken == Textured(<<"M", "3">>, "Albedo", TexBroken)
MaterialKinds == {NullMaterial, MatA, MatTga, MatResident, MatBroken}
TexturedSlotLists ==
    UNION { [1..n -> MaterialKinds] : n \in 0..MaxSlots }

\* One-slot lists with the remaining kinds of texture.
OtherTextures ==
    {TexGray, TexRGBA, TexShort, TexEmptyMip, TexCompressed, TexZero, TexCube}
SingleSlotLists ==
    {<<Textured(<<"M", "4">>, "Texture", t)>> : t \in OtherTextures} \cup
    {<<Material(<<"M", "5">>, NoParams, TRUE, <<NullTexture, TexBGRA>>)>>}

OutPath == [dir |-> <<"out">>, file |-> <<"m", "e", "s", "h", ".obj">>]
\* An output path whose extension is that of the material file.
MtlPath == [dir |-> <<"out">>, file |-> <<"m", ".mtl">>]

Input(m, path) == [Mesh |-> m, FilePath |-> path]

GeometryInputs ==
    {Input(StaticMesh(<<"S">>, TRUE, TRUE, d, slots), OutPath) :
        d \in MeshDescriptions, slots \in PlainSlotLists}

MaterialInputs ==
    {Input(StaticMesh(<<"S">>, TRUE, TRUE, OneTriangle, slots), OutPath) :
        slots \in TexturedSlotLists \cup SingleSlotLists} \cup
    {Input(StaticMesh(<<"S">>, TRUE, TRUE, OneTriangle, <<m>>), MtlPath) :
        m \in {MatA, MatTga}}

\* Meshes that ExportToOBJ refuses.
RefusedInputs ==
    {Input(NullMesh, OutPath),
     Input(StaticMesh(<<"S">>, FALSE, TRUE, OneTriangle, <<MatA>>), OutPath),
     Input(StaticMesh(<<"S">>, TRUE, FALSE, OneTriangle, <<MatA>>), OutPath)}

Inputs == GeometryInputs \cup MaterialInputs \cup RefusedInputs

\* --- the inputs of the pixel conversion
\* A buffer of n bytes, each byte naming its own position.
Bytes(n, base) == [k \in 1..n |-> base + k]
BufferSizes == 0..(MaxSize * MaxSize * 4 + MaxExtra)
SourceFormats == {"TSF_BGRA8", "TSF_G8", "TSF_RGBA8", "TSF_G16"}

\* Every declared format, width, height and length of the source buffer.
SourceTextures ==
    {Texture2D(<<"T">>, TRUE, Bytes(n, 0), w, h, f, FALSE, 0, 0, <<>>) :
        f \in SourceFormats, w \in 0..MaxSize, h \in 0..MaxSize,
        n \in BufferSizes}
\* No source; every width, height and length of the resident mip.
ResidentTextures ==
    {Texture2D(<<"T">>, FALSE, <<>>, 0, 0, "TSF_Invalid", TRUE, w, h,
               Bytes(n, 100)) :
        w \in 0..MaxSize, h \in 0..MaxSize, n \in BufferSizes}

PixelInputs ==
    {Input(StaticMesh(<<"S">>, TRUE, TRUE, OneTriangle,
                      <<Textured(<<"M">>, "BaseColor", t)>>), OutPath) :
        t \in SourceTextures \cup ResidentTextures \cup {TexBGRA, TexGray}}

\* ---------------------------------------------------------------- the state
VARIABLES
    pc,                    \* the statement the export is at
    ExportPath,            \* MergeAndExportMeshes: the path asked for
    bExportAsGLTF,         \* MergeAndExportMeshes: glTF was asked for
    Mesh, FilePath,        \* the arguments of ExportToOBJ
    OBJContent,            \* ExportToOBJ: the geometry text built so far
    VertexInstanceToIndex, \* ExportToOBJ: vertex-instance -> vt/vn index
    CurrentIndex,          \* ExportToOBJ: the next vt/vn index
    MatIndex,              \* ExportToOBJ: the slot of the face loop
    bSuccess,              \* ExportToOBJ: the outcome of the geometry write
    result,                \* what ExportToOBJ returned
    files,                 \* the files on disk: records [path, content]
    directories,           \* the directories created
    MTLContent,            \* ExportMaterials: the material text built so far
    SlotIndex,             \* ExportMaterials: the slot of the loop (i)
    BaseColorTexture,      \* ExportMaterials: the texture of this slot
    bTextureExported,      \* ExportMaterials: this slot wrote a texture
    bUseAlternativeMethod, \* ExportMaterials: the source gave no data
    ColorData,             \* ExportMaterials: the converted pixels
    Size,                  \* ExportMaterials: <<Width, Height>> of ColorData
    calls,                 \* the engine calls made for this slot, in order
    exported               \* per slot visited: the texture files it wrote

geometryVars == <<OBJContent, VertexInstanceToIndex, CurrentIndex, MatIndex>>
slotVars == <<BaseColorTexture, bTextureExported, bUseAlternativeMethod,
              ColorData, Size, calls>>
materialVars == <<MTLContent, SlotIndex, exported>>
requestVars == <<ExportPath, bExportAsGLTF>>
vars == <<pc, requestVars, Mesh, FilePath, geometryVars, bSuccess, result, files,
          directories, materialVars, slotVars>>

\* --- the materials of the texture selection
\* Every material that answers for up to MaxParams of the probed names,
\* each with no texture or with one of two textures, and that is a plain
\* material or a material instance with a list of its own.
ParameterTextures == {NullTexture, TexBGRA, TexResident}
ParameterMaps ==
    UNION {[N -> ParameterTextures] :
              N \in {S \in SUBSET Range(ParamNames) : Cardinality(S) <= MaxParams}}
InstanceLists == {<<>>, <<NullTexture, TexResident>>, <<TexBGRA>>}
ProbedMaterials ==
    {Material(<<"M">>, params, FALSE, <<>>) : params \in ParameterMaps} \cup
    {Material(<<"M">>, params, TRUE, values) :
        params \in ParameterMaps, values \in InstanceLists}
ProbeInputs ==
    {Input(StaticMesh(<<"S">>, TRUE, TRUE, OneTriangle, <<m>>), OutPath) :
        m \in ProbedMaterials}

\* --- the output paths
\* With and without a directory; with one extension, none, several, and
\* nothing but an extension; with the extension of the other files.
Directories == {<<>>, <<"out">>, <<"out", "sub.d">>}
FileNames == {<<"m", ".obj">>, <<"m">>, <<"m", ".b", ".obj">>, <<".obj">>,
              <<"S", ".obj">>, <<"m", ".mtl">>, <<"m", ".gltf">>}
Paths == {[dir |-> d, file |-> f] : d \in Directories, f \in FileNames}
PathInputs ==
    {Input(StaticMesh(<<"S">>, TRUE, TRUE, OneTriangle, slots), P) :
        slots \in {<<>>, <<MatA>>, <<MatTga, MatResident>>}, P \in Paths}

\* --- the inputs of the name sanitization
\* The characters names are made of: those SanitizeFileName looks for,
\* a letter and the underscore.
NameCharacters ==
    {" ", "/", "\\", ":", "*", "?", "\"", "<", ">", "|", "a", "_"}
Names == UNION {[1..n -> NameCharacters] : n \in 0..MaxNameLen}
MetalRough == <<"M", "e", "t", "a", "l", "/", "R", "o", "u", "g", "h", ":",
                "0", "1">>
BaseColorMap == <<"B", "a", "s", "e", " ", "C", "o", "l", "o", "r", "*",
                  "M", "a", "p">>
\* A texture of the given name, with a source or with resident data only.
NamedTexture(name, valid) ==
    IF valid
    THEN Texture2D(name, TRUE, <<10, 20, 30, 255>>, 1, 1, "TSF_BGRA8",
                   FALSE, 0, 0, <<>>)
    ELSE Texture2D(name, FALSE, <<>>, 0, 0, "TSF_Invalid",
                   TRUE, 1, 1, <<5, 6, 7, 8>>)
\* A one-slot mesh whose material and texture carry the given names.
NamedInput(MaterialName, TextureName, valid) ==
    Input(StaticMesh(<<"S">>, TRUE, TRUE, OneTriangle,
                     <<Textured(MaterialName, "BaseColor",
                                NamedTexture(TextureName, valid))>>), OutPath)
NameInputs ==
    {NamedInput(n, n, TRUE) : n \in Names} \cup
    {NamedInput(MetalRough, BaseColorMap, valid) : valid \in BOOLEAN}

\* --- the requests to MergeAndExportMeshes
\* The merged mesh, the path asked for and the format asked for.
Request(m, path, gltf) ==
    [Mesh |-> m, ExportPath |-> path, bExportAsGLTF |-> gltf]
RequestPaths ==
    {[dir |-> d, file |-> f] :
        d \in {<<>>, <<"out">>, <<"d.gltf">>},
        f \in {<<"m", ".gltf">>, <<"m", ".GLTF">>, <<"m", ".gltf", ".gltf">>,
               <<"m", ".obj">>, <<"m">>}}
Requests ==
    {Request(StaticMesh(<<"S">>, TRUE, TRUE, OneTriangle, slots), P, gltf) :
        slots \in {<<>>, <<MatA>>, <<MatTga, MatResident>>},
        P \in RequestPaths, gltf \in BOOLEAN} \cup
    {Request(NullMesh, [dir |-> <<"out">>, file |-> <<"m", ".gltf">>], TRUE)}
\* FilePath before ExportToOBJ is called.
NoPath == [dir |-> <<>>, file |-> <<>>]

\* The locals of ExportToOBJ and ExportMaterials, and the disk, before
\* the export.
InitLocals ==
    /\ OBJContent = <<>>
    /\ VertexInstanceToIndex = <<>>
    /\ CurrentIndex = 1
    /\ MatIndex = 0
    /\ bSuccess = FALSE
    /\ result = "pending"
    /\ files = {}
    /\ directories = {}
    /\ MTLContent = <<>>
    /\ SlotIndex = 0
    /\ BaseColorTexture = NullTexture
    /\ bTextureExported = FALSE
    /\ bUseAlternativeMethod = FALSE
    /\ ColorData = <<>>
    /\ Size = <<0, 0>>
    /\ calls = <<>>
    /\ exported = <<>>

\* The state at the call of ExportToOBJ, on one of the given inputs.
InitOn(inputs) ==
    /\ \E in \in inputs :
          /\ Mesh = in.Mesh /\ FilePath = in.FilePath
          /\ ExportPath = in.FilePath /\ bExportAsGLTF = FALSE
    /\ pc = "ExportToOBJ"
    /\ InitLocals

\* The state of MergeAndExportMeshes once the meshes are merged.
RequestInit ==
    /\ \E r \in Requests :
          /\ Mesh = r.Mesh /\ ExportPath = r.ExportPath
          /\ bExportAsGLTF = r.bExportAsGLTF
    /\ FilePath = NoPath
    /\ pc = "MergeAndExportMeshes"
    /\ InitLocals

Init == InitOn(Inputs)
\* The export of a one-slot mesh, for every texture of the conversion.
PixelInit == InitOn(PixelInputs)
\* The export of a one-slot mesh, for every name of material and texture.
NameInit == InitOn(NameInputs)
\* The export of one mesh, for every output path.
PathInit == InitOn(PathInputs)
\* The export of a one-slot mesh, for every material of the selection.
ProbeInit == InitOn(ProbeInputs)

\* FFileHelper::SaveStringToFile / SaveArrayToFile: a successful write
\* replaces the file at the path; a failed write leaves the disk as it was.
SaveToFile(fs, path, content, ok) ==
    IF ok THEN {f \in fs : f.path # path} \cup
               {[path |-> path, content |-> content]}
    ELSE fs

FileExists(path) == \E f \in files : f.path = path
FileAt(path) == CHOOSE f \in files : f.path = path

\* ExportToOBJ calls ExportMaterials(Mesh, GetPath(FilePath),
\* GetCleanFilename(FilePath)).
TexturesPath(Path) == Slash(GetPath(Path)) \o <<"Textures">>

\* The mutant of MTLFileName: the extension of the geometry file stays.
MTLFileName_KeepExtension(OBJFileName) == OBJFileName \o <<".mtl">>

MTLFileName(OBJFileName) == GetBaseFilename(OBJFileName) \o <<".mtl">>
MTLPath(Path) ==
    [dir |-> Slash(GetPath(Path)),
     file |-> MTLFileName(GetCleanFilename(Path))]

TexturePath(Path, TextureName) ==
    [dir |-> TexturesPath(Path), file |-> TextureName]

\* ------------------------------------------------------------ ExportToOBJ
\* The name on the mtllib line.
MTLFileNameOfOBJ(Path) == GetBaseFilename(GetCleanFilename(Path)) \o <<".mtl">>

Header(mesh, Path) ==
    << <<"#", "Exported from Unreal Engine 5">>,
       <<"#", "Mesh:", mesh.name>>,
       <<"mtllib", MTLFileNameOfOBJ(Path)>>,
       <<"">> >>

\* The checks ExportToOBJ makes before it emits geometry.
MeshAccepted(mesh) ==
    /\ ~mesh.isNull
    /\ mesh.hasRenderData
    /\ mesh.hasMeshDescription

ExportToOBJ_Begin ==
    /\ pc = "ExportToOBJ"
    /\ IF MeshAccepted(Mesh)
       THEN /\ OBJContent' = Header(Mesh, FilePath)
            /\ pc' = "Vertices"
            /\ UNCHANGED result
       ELSE /\ result' = "failure"
            /\ pc' = "Done"
            /\ UNCHANGED OBJContent
    /\ UNCHANGED <<requestVars, Mesh, FilePath, VertexInstanceToIndex, CurrentIndex,
                   MatIndex, bSuccess, files, directories, materialVars,
                   slotVars>>

\* Z-up to Y-up: (x, y, z) -> (x, z, y).
VertexRecord(VertexID) ==
    LET Pos == VertexPositions(VertexID)
    IN  <<"v", Pos[1], Pos[3], Pos[2]>>

UVRecord(InstanceID) ==
    LET UV == VertexUVs(InstanceID)
    IN  <<"vt", UV[1], 1 - UV[2]>>

NormalRecord(InstanceID) ==
    LET Normal == VertexNormals(InstanceID)
    IN  <<"vn", Normal[1], Normal[3], Normal[2]>>

ExportVertices ==
    /\ pc = "Vertices"
    /\ LET ids == GetElementIDs(Mesh.desc.Vertices)
       IN  OBJContent' = OBJContent
               \o [k \in DOMAIN ids |-> VertexRecord(ids[k])] \o << <<"">> >>
    /\ pc' = "UVs"
    /\ UNCHANGED <<requestVars, Mesh, FilePath, VertexInstanceToIndex, CurrentIndex,
                   MatIndex, bSuccess, result, files, directories,
                   materialVars, slotVars>>

\* The mutant of IndexOfInstance: the index is the identifier plus one.
IndexOfInstance_ByID(ids, first, k) == ids[k] + 1

\* VertexInstanceToIndex.Add(InstanceID, CurrentIndex++) for the k-th
\* vertex-instance of the enumeration, CurrentIndex starting at first.
IndexOfInstance(ids, first, k) == first + k - 1

ExportUVs ==
    /\ pc = "UVs"
    /\ LET ids == GetElementIDs(DOMAIN Mesh.desc.VertexInstances)
       IN  /\ OBJContent' = OBJContent
                  \o [k \in DOMAIN ids |-> UVRecord(ids[k])] \o << <<"">> >>
           /\ VertexInstanceToIndex' =
                  [x \in Range(ids) |->
                      IndexOfInstance(ids, CurrentIndex,
                                      CHOOSE k \in DOMAIN ids : ids[k] = x)]
           /\ CurrentIndex' = CurrentIndex + Len(ids)
    /\ pc' = "Normals"
    /\ UNCHANGED <<requestVars, Mesh, FilePath, MatIndex, bSuccess, result, files,
                   directories, materialVars, slotVars>>

ExportNormals ==
    /\ pc = "Normals"
    /\ LET ids == GetElementIDs(DOMAIN Mesh.desc.VertexInstances)
       IN  OBJContent' = OBJContent
               \o [k \in DOMAIN ids |-> NormalRecord(ids[k])] \o << <<"">> >>
    /\ pc' = "Faces"
    /\ UNCHANGED <<requestVars, Mesh, FilePath, VertexInstanceToIndex, CurrentIndex,
                   MatIndex, bSuccess, result, files, directories,
                   materialVars, slotVars>>

\* int32 VertexIndex = VertexID.GetValue() + 1
VertexIndexOf(VertexID) == VertexID + 1

\* One corner of a face record: vertex / uv / normal index.
Corner(desc, map, InstanceID) ==
    LET VertexID == desc.VertexInstances[InstanceID]
        UVNormalIndex == map[InstanceID]
    IN  <<VertexIndexOf(VertexID), UVNormalIndex, UVNormalIndex>>

FaceRecord(desc, map, VertexInstances) ==
    <<"f", Corner(desc, map, VertexInstances[1]),
           Corner(desc, map, VertexInstances[2]),
           Corner(desc, map, VertexInstances[3])>>

\* The mutant of PolygonUsesMaterial: groups up to the slot are taken.
PolygonUsesMaterial_UpTo(PolygonGroupID, Index) == PolygonGroupID <= Index

\* if (PolygonGroupID.GetValue() != MatIndex) continue;
PolygonUsesMaterial(PolygonGroupID, Index) == PolygonGroupID = Index

TriangleFaces(desc, map, TriangleIDs) ==
    Flatten([k \in DOMAIN TriangleIDs |->
        LET VertexInstances == desc.Triangles[TriangleIDs[k]]
        IN  IF Len(VertexInstances) = 3
            THEN <<FaceRecord(desc, map, VertexInstances)>>
            ELSE <<>>])

PolygonFaces(desc, map, Index) ==
    Flatten([p \in DOMAIN desc.Polygons |->
        IF PolygonUsesMaterial(desc.Polygons[p].group, Index)
        THEN TriangleFaces(desc, map, desc.Polygons[p].triangles)
        ELSE <<>>])

\* The mutant of SlotIsSkipped: an unassigned slot is not skipped.
SlotIsSkipped_Never(slot) == FALSE

\* if (!Materials[MatIndex].MaterialInterface) continue;
SlotIsSkipped(slot) == slot.isNull

\* The mutant of MaterialNameOf: the name is taken as it is.
MaterialNameOf_Raw(slot) == IF slot.isNull THEN <<"None">> ELSE slot.name

\* The name a slot's material goes by in both files; an unassigned slot
\* has no material to name.
MaterialNameOf(slot) ==
    IF slot.isNull THEN <<"None">> ELSE SanitizeFileName(slot.name)

GroupHeader(MaterialName) ==
    << <<"">>, <<"#", "Material:", MaterialName>>, <<"usemtl", MaterialName>> >>

\* One pass of the loop over the material slots.
ExportFaces ==
    /\ pc = "Faces"
    /\ MatIndex < Len(Mesh.StaticMaterials)
    /\ LET slot == Mesh.StaticMaterials[MatIndex + 1]
       IN  IF SlotIsSkipped(slot)
           THEN UNCHANGED OBJContent
           ELSE OBJContent' = OBJContent
                    \o GroupHeader(MaterialNameOf(slot))
                    \o PolygonFaces(Mesh.desc, VertexInstanceToIndex, MatIndex)
    /\ MatIndex' = MatIndex + 1
    /\ UNCHANGED <<pc, requestVars, Mesh, FilePath, VertexInstanceToIndex, CurrentIndex,
                   bSuccess, result, files, directories, materialVars,
                   slotVars>>

\* The mutant of MaterialsFollow: materials are exported in any case.
MaterialsFollow_Always(ok) == TRUE

\* if (bSuccess) ExportMaterials(...)
MaterialsFollow(ok) == ok

\* The loop is over: FFileHelper::SaveStringToFile(OBJContent, *FilePath).
SaveOBJ ==
    /\ pc = "Faces"
    /\ MatIndex >= Len(Mesh.StaticMaterials)
    /\ \E ok \in BOOLEAN :
          /\ files' = SaveToFile(files, FilePath, OBJContent, ok)
          /\ bSuccess' = ok
          /\ pc' = IF MaterialsFollow(ok) THEN "ExportMaterials" ELSE "Return"
    /\ UNCHANGED <<requestVars, Mesh, FilePath, geometryVars, result, directories,
                   materialVars, slotVars>>

\* The mutant of ReturnValue: the export also answers for the material
\* file.
ReturnValue_MaterialsToo == bSuccess /\ FileExists(MTLPath(FilePath))

\* return bSuccess;
ReturnValue == bSuccess

Return ==
    /\ pc = "Return"
    /\ result' = IF ReturnValue THEN "success" ELSE "failure"
    /\ pc' = "Done"
    /\ UNCHANGED <<requestVars, Mesh, FilePath, geometryVars, bSuccess, files,
                   directories, materialVars, slotVars>>

\* -------------------------------------------------------- ExportMaterials
ExportMaterials_Begin ==
    /\ pc = "ExportMaterials"
    /\ directories' = directories \cup {TexturesPath(FilePath)}
    /\ MTLContent' = <<>>
    /\ SlotIndex' = 0
    /\ pc' = "Slot"
    /\ UNCHANGED <<requestVars, Mesh, FilePath, geometryVars, bSuccess, result, files,
                   exported, slotVars>>

MaterialBlock(MaterialName) ==
    << <<"newmtl", MaterialName>>,
       <<"Ka", "1.000", "1.000", "1.000">>,
       <<"Kd", "1.000", "1.000", "1.000">>,
       <<"Ks", "0.000", "0.000", "0.000">>,
       <<"Ns", "10.0">>,
       <<"d", "1.0">>,
       <<"illum", "2">> >>

\* Material->GetTextureParameterValue(ParamName, BaseColorTexture): true
\* when the material answers for the name, and only then is the texture
\* (which may be null) stored.
GetTextureParameterValue(Material_, ParamName) ==
    ParamName \in DOMAIN Material_.params

\* The loop over ParamNames: the texture of the first name answered for.
ProbeParamNames(Material_) ==
    LET found == {k \in DOMAIN ParamNames :
                     GetTextureParameterValue(Material_, ParamNames[k])}
    IN  IF found = {} THEN NullTexture
        ELSE Material_.params[ParamNames[Min(found)]]

\* The scan of a material instance's own texture parameter values.
ScanParameterValues(Material_) ==
    LET values == Material_.TextureParameterValues
        set == {k \in DOMAIN values : ~values[k].isNull}
    IN  IF Material_.isInstance /\ set # {} THEN values[Min(set)]
        ELSE NullTexture

ResolveTexture(Material_) ==
    LET probed == ProbeParamNames(Material_)
    IN  IF ~probed.isNull THEN probed ELSE ScanParameterValues(Material_)

\* bool bTextureExported = false; declared inside the loop body.
TextureExportedAtStart(previous) == FALSE

\* One pass of the loop over the material slots, up to the texture found.
Slot_Begin ==
    /\ pc = "Slot"
    /\ SlotIndex < Len(Mesh.StaticMaterials)
    /\ LET Material_ == Mesh.StaticMaterials[SlotIndex + 1]
       IN  IF Material_.isNull
           THEN /\ SlotIndex' = SlotIndex + 1
                /\ exported' = Append(exported, <<>>)
                /\ UNCHANGED <<pc, MTLContent, slotVars>>
           ELSE /\ MTLContent' = MTLContent
                       \o MaterialBlock(SanitizeFileName(Material_.name))
                /\ BaseColorTexture' = ResolveTexture(Material_)
                /\ bTextureExported' = TextureExportedAtStart(bTextureExported)
                /\ bUseAlternativeMethod' = FALSE
                /\ ColorData' = <<>>
                /\ Size' = <<0, 0>>
                /\ calls' = <<>>
                /\ pc' = "Texture"
                /\ UNCHANGED <<SlotIndex, exported>>
    /\ UNCHANGED <<requestVars, Mesh, FilePath, geometryVars, bSuccess, result, files,
                   directories>>

\* --- pixel conversion
FColor(R, G, B, A) == <<R, G, B, A>>
\* ColorData.SetNum(Width * Height) default-constructs the pixels, and
\* FColor() assigns no member: a pixel that no branch assigns holds
\* whatever the memory held, zero or not.
UninitializedColors == {FColor(0, 0, 0, 0), FColor(205, 205, 205, 205)}

\* The mutant of ConvertBGRA8: the four bytes are taken in source order.
ConvertBGRA8_AsIs(RawData, Width, Height, Unassigned) ==
    [PixelIndex \in 1..(Width * Height) |->
        LET ByteIndex == (PixelIndex - 1) * 4
        IN  IF ByteIndex + 3 < Len(RawData)
            THEN FColor(RawData[ByteIndex + 1], RawData[ByteIndex + 2],
                        RawData[ByteIndex + 3], RawData[ByteIndex + 4])
            ELSE Unassigned]

\* case TSF_BGRA8: four source bytes per pixel, read only when all four
\* lie inside the buffer.
ConvertBGRA8(RawData, Width, Height, Unassigned) ==
    [PixelIndex \in 1..(Width * Height) |->
        LET ByteIndex == (PixelIndex - 1) * 4
        IN  IF ByteIndex + 3 < Len(RawData)
            THEN FColor(RawData[ByteIndex + 3], RawData[ByteIndex + 2],
                        RawData[ByteIndex + 1], RawData[ByteIndex + 4])
            ELSE Unassigned]

\* case TSF_G8: one source byte per pixel.
ConvertG8(RawData, Width, Height, Unassigned) ==
    [PixelIndex \in 1..(Width * Height) |->
        IF PixelIndex - 1 < Len(RawData)
        THEN FColor(RawData[PixelIndex], RawData[PixelIndex],
                    RawData[PixelIndex], 255)
        ELSE Unassigned]

\* default: the buffer is read as BGRA when it holds width*height*4 bytes.
ConvertDefault(RawData, Width, Height, Unassigned) ==
    [PixelIndex \in 1..(Width * Height) |->
        LET ByteIndex == (PixelIndex - 1) * 4
        IN  IF Len(RawData) >= Width * Height * 4
            THEN FColor(RawData[ByteIndex + 3], RawData[ByteIndex + 2],
                        RawData[ByteIndex + 1], RawData[ByteIndex + 4])
            ELSE Unassigned]

\* The switch on the source format: the pixels and bConversionSuccess.
ConvertSource(Format, RawData, Width, Height, Unassigned) ==
    CASE Format = "TSF_BGRA8" ->
            [pixels |-> ConvertBGRA8(RawData, Width, Height, Unassigned),
             ok |-> TRUE]
      [] Format = "TSF_G8" ->
            [pixels |-> ConvertG8(RawData, Width, Height, Unassigned),
             ok |-> TRUE]
      [] OTHER ->
            [pixels |-> ConvertDefault(RawData, Width, Height, Unassigned),
             ok |-> Len(RawData) >= Width * Height * 4]

\* The indices (from 0) of RawData that the switch reads.
SourceReads(Format, Num, Width, Height) ==
    CASE Format = "TSF_BGRA8" ->
            {ByteIndex + j :
                ByteIndex \in {4 * PixelIndex :
                                  PixelIndex \in 0..(Width * Height - 1)}
                              \cap {b \in 0..(4 * Width * Height) : b + 3 < Num},
                j \in 0..3}
      [] Format = "TSF_G8" ->
            {PixelIndex \in 0..(Width * Height - 1) : PixelIndex < Num}
      [] OTHER ->
            IF Num >= Width * Height * 4
            THEN 0..(Width * Height * 4 - 1) ELSE {}

\* The mutant of UseAlternativeMethod: the secondary source is also
\* tried after the primary source delivered data.
UseAlternativeMethod_Always(SourceValid, RawDataNum) == TRUE

\* bUseAlternativeMethod: the source is invalid or its mip data is empty.
UseAlternativeMethod(SourceValid, RawDataNum) ==
    ~(SourceValid /\ RawDataNum > 0)

\* if (bUseAlternativeMethod && !bTextureExported)
AlternativeFollows(bUse, bExported) == bUse /\ ~bExported

AfterPrimary(bUse, bExported) ==
    IF AlternativeFollows(bUse, bExported) THEN "Alternative" ELSE "SlotEnd"

\* The texture found is cast and its source is read and converted.
Slot_Texture ==
    /\ pc = "Texture"
    /\ IF BaseColorTexture.isNull \/ ~BaseColorTexture.is2D
       THEN /\ pc' = "SlotEnd"
            /\ UNCHANGED <<bUseAlternativeMethod, ColorData, Size, calls>>
       ELSE \E Unassigned \in UninitializedColors :
            LET TextureSource == BaseColorTexture
                RawData == IF TextureSource.SourceValid
                           THEN TextureSource.RawData ELSE <<>>
                bUse == UseAlternativeMethod(TextureSource.SourceValid,
                                             Len(RawData))
                conv == ConvertSource(TextureSource.Format, RawData,
                                      TextureSource.SizeX, TextureSource.SizeY,
                                      Unassigned)
            IN  /\ bUseAlternativeMethod' = bUse
                /\ calls' = IF TextureSource.SourceValid
                            THEN Append(calls, [call |-> "GetMipData"])
                            ELSE calls
                /\ IF TextureSource.SourceValid /\ Len(RawData) > 0
                   THEN /\ ColorData' = conv.pixels
                        /\ Size' = <<TextureSource.SizeX, TextureSource.SizeY>>
                        /\ pc' = IF conv.ok /\ Len(conv.pixels) > 0
                                 THEN "TGA"
                                 ELSE AfterPrimary(bUse, bTextureExported)
                   ELSE /\ UNCHANGED <<ColorData, Size>>
                        /\ pc' = AfterPrimary(bUse, bTextureExported)
    /\ UNCHANGED <<requestVars, Mesh, FilePath, geometryVars, bSuccess, result, files,
                   directories, materialVars, BaseColorTexture,
                   bTextureExported>>

\* --- the image containers
\* What one attempt at a container format ends in: CreateImageWrapper gave
\* no wrapper, SetRaw refused the buffer, GetCompressed gave no bytes,
\* SaveArrayToFile failed, or the file was saved.
EncodeOutcomes == {"NoWrapper", "Rejected", "Empty", "SaveFailed", "Saved"}

EngineCall(call, format, outcome, file) ==
    [call |-> call, format |-> format, outcome |-> outcome, file |-> file]

TextureFileName(Texture, ext) == SanitizeFileName(Texture.name) \o <<ext>>

MapLine(TextureName) == <<"map_Kd", <<"Textures", TextureName>>>>

\* One attempt at a container: the wrapper is created, the pixels are set
\* and compressed, the bytes are saved under Textures/, and on a saved
\* file the map_Kd line is added and bTextureExported is set.
TryContainer(format, ext, outcome) ==
    LET TextureName == TextureFileName(BaseColorTexture, ext)
        saved == outcome = "Saved"
    IN  /\ calls' = Append(calls,
                       EngineCall("Encode", format, outcome, TextureName))
        /\ files' = IF outcome \in {"SaveFailed", "Saved"}
                    THEN SaveToFile(files,
                                    TexturePath(FilePath, TextureName),
                                    <<format, Size, ColorData>>, saved)
                    ELSE files
        /\ MTLContent' = IF saved
                         THEN Append(MTLContent, MapLine(TextureName))
                         ELSE MTLContent
        /\ bTextureExported' = IF saved THEN TRUE ELSE bTextureExported

\* The mutant of FallbackFollows: BMP is attempted after TGA in any case.
FallbackFollows_Always(bExported) == TRUE

\* if (!bTextureExported): BMP is attempted when TGA saved no file.
FallbackFollows(bExported) == ~bExported

Primary_TGA ==
    /\ pc = "TGA"
    /\ \E outcome \in EncodeOutcomes : TryContainer("TGA", ".tga", outcome)
    /\ pc' = IF FallbackFollows(bTextureExported') THEN "BMP"
             ELSE AfterPrimary(bUseAlternativeMethod, bTextureExported')
    /\ UNCHANGED <<requestVars, Mesh, FilePath, geometryVars, bSuccess, result,
                   directories, SlotIndex, exported, BaseColorTexture,
                   bUseAlternativeMethod, ColorData, Size>>

Primary_BMP ==
    /\ pc = "BMP"
    /\ \E outcome \in EncodeOutcomes : TryContainer("BMP", ".bmp", outcome)
    /\ pc' = AfterPrimary(bUseAlternativeMethod, bTextureExported')
    /\ UNCHANGED <<requestVars, Mesh, FilePath, geometryVars, bSuccess, result,
                   directories, SlotIndex, exported, BaseColorTexture,
                   bUseAlternativeMethod, ColorData, Size>>

\* if (DataSize >= Width * Height * 4)
PlatformDataUsable(DataSize, Width, Height) == DataSize >= Width * Height * 4

\* The resident mip is read as BGRA8 into OutBMP (held in ColorData here).
ConvertPlatformData(SourceData, Width, Height) ==
    [PixIdx \in 1..(Width * Height) |->
        LET Idx == (PixIdx - 1) * 4
        IN  FColor(SourceData[Idx + 3], SourceData[Idx + 2],
                   SourceData[Idx + 1], SourceData[Idx + 4])]

\* The indices (from 0) of SourceData that the loop reads.
PlatformReads(DataSize, Width, Height) ==
    IF PlatformDataUsable(DataSize, Width, Height)
    THEN 0..(Width * Height * 4 - 1) ELSE {}

\* The secondary source: mip 0 of the platform data is locked and, when
\* it is large enough, converted.
Slot_Alternative ==
    /\ pc = "Alternative"
    /\ LET Mip == BaseColorTexture
       IN  IF ~Mip.HasMips
           THEN /\ calls' = Append(calls,
                       EngineCall("GetPlatformData", "", "NoData", <<>>))
                /\ pc' = "SlotEnd"
                /\ UNCHANGED <<ColorData, Size>>
           ELSE \E locked \in BOOLEAN :
                  /\ calls' = Append(calls,
                       EngineCall("Lock", "",
                                  IF locked THEN "Locked" ELSE "NoData", <<>>))
                  /\ IF locked /\ PlatformDataUsable(Len(Mip.BulkData),
                                                     Mip.MipSizeX, Mip.MipSizeY)
                     THEN /\ ColorData' = ConvertPlatformData(Mip.BulkData,
                                              Mip.MipSizeX, Mip.MipSizeY)
                          /\ Size' = <<Mip.MipSizeX, Mip.MipSizeY>>
                          /\ pc' = "AltTGA"
                     ELSE /\ pc' = "SlotEnd"
                          /\ UNCHANGED <<ColorData, Size>>
    /\ UNCHANGED <<requestVars, Mesh, FilePath, geometryVars, bSuccess, result, files,
                   directories, materialVars, BaseColorTexture,
                   bTextureExported, bUseAlternativeMethod>>

Alternative_TGA ==
    /\ pc = "AltTGA"
    /\ \E outcome \in EncodeOutcomes : TryContainer("TGA", ".tga", outcome)
    /\ pc' = IF FallbackFollows(bTextureExported') THEN "AltBMP" ELSE "SlotEnd"
    /\ UNCHANGED <<requestVars, Mesh, FilePath, geometryVars, bSuccess, result,
                   directories, SlotIndex, exported, BaseColorTexture,
                   bUseAlternativeMethod, ColorData, Size>>

Alternative_BMP ==
    /\ pc = "AltBMP"
    /\ \E outcome \in EncodeOutcomes : TryContainer("BMP", ".bmp", outcome)
    /\ pc' = "SlotEnd"
    /\ UNCHANGED <<requestVars, Mesh, FilePath, geometryVars, bSuccess, result,
                   directories, SlotIndex, exported, BaseColorTexture,
                   bUseAlternativeMethod, ColorData, Size>>

\* The texture files this slot saved, in the order it saved them.
SavedFiles(cs) ==
    LET saved == SelectSeq(cs, LAMBDA c : c.call = "Encode" /\ c.outcome = "Saved")
    IN  [k \in DOMAIN saved |-> saved[k].file]

\* The mutant of NextSlotIndex: a slot that exported no texture ends
\* the loop.
NextSlotIndex_StopOnFailure(index, count, bExported) ==
    IF bExported THEN index + 1 ELSE count

\* i++ of the loop over the slots, whatever the slot's texture did.
NextSlotIndex(index, count, bExported) == index + 1

\* The end of the loop body: the blank line that closes the block.
Slot_End ==
    /\ pc = "SlotEnd"
    /\ MTLContent' = Append(MTLContent, <<"">>)
    /\ exported' = Append(exported, SavedFiles(calls))
    /\ SlotIndex' = NextSlotIndex(SlotIndex, Len(Mesh.StaticMaterials),
                                  bTextureExported)
    /\ pc' = "Slot"
    /\ UNCHANGED <<requestVars, Mesh, FilePath, geometryVars, bSuccess, result, files,
                   directories, slotVars>>

\* The loop is over: FFileHelper::SaveStringToFile(MTLContent, *MTLPath).
SaveMTL ==
    /\ pc = "Slot"
    /\ SlotIndex >= Len(Mesh.StaticMaterials)
    /\ \E ok \in BOOLEAN :
          files' = SaveToFile(files, MTLPath(FilePath), MTLContent, ok)
    /\ pc' = "Return"
    /\ UNCHANGED <<requestVars, Mesh, FilePath, geometryVars, bSuccess, result,
                   directories, materialVars, slotVars>>

\* --------------------------------------------------- MergeAndExportMeshes
\* The merged mesh is checked, the directory of the path asked for is
\* created, and the exporter of the format asked for is called.
MergeAndExportMeshes_Export ==
    /\ pc = "MergeAndExportMeshes"
    /\ IF Mesh.isNull
       THEN /\ pc' = "Done"
            /\ UNCHANGED <<FilePath, directories>>
       ELSE /\ directories' = directories \cup {GetPath(ExportPath)}
            /\ IF bExportAsGLTF
               THEN pc' = "ExportToGLTF" /\ UNCHANGED FilePath
               ELSE pc' = "ExportToOBJ" /\ FilePath' = ExportPath
    /\ UNCHANGED <<requestVars, Mesh, geometryVars, bSuccess, result, files,
                   materialVars, slotVars>>

\* FString OBJPath = FilePath.Replace(".gltf", ".obj");
\* return ExportToOBJ(Mesh, OBJPath);
ExportToGLTF ==
    /\ pc = "ExportToGLTF"
    /\ FilePath' = ReplaceInPath(ExportPath, ".gltf", ".obj")
    /\ pc' = "ExportToOBJ"
    /\ UNCHANGED <<requestVars, Mesh, geometryVars, bSuccess, result, files,
                   directories, materialVars, slotVars>>

Next ==
    \/ ExportToOBJ_Begin
    \/ ExportVertices
    \/ ExportUVs
    \/ ExportNormals
    \/ ExportFaces
    \/ SaveOBJ
    \/ ExportMaterials_Begin
    \/ Slot_Begin
    \/ Slot_Texture
    \/ Primary_TGA
    \/ Primary_BMP
    \/ Slot_Alternative
    \/ Alternative_TGA
    \/ Alternative_BMP
    \/ Slot_End
    \/ SaveMTL
    \/ Return

Spec == Init /\ [][Next]_vars
PixelSpec == PixelInit /\ [][Next]_vars
NameSpec == NameInit /\ [][Next]_vars
PathSpec == PathInit /\ [][Next]_vars
ProbeSpec == ProbeInit /\ [][Next]_vars

\* An export asked of MergeAndExportMeshes, in either format.
RequestNext ==
    \/ MergeAndExportMeshes_Export
    \/ ExportToGLTF
    \/ Next
RequestSpec == RequestInit /\ [][RequestNext]_vars

\* ================================================================ properties
Materials == Mesh.StaticMaterials
SlotCount == Len(Materials)
\* The slots (1-based) that carry a material.
AssignedSlots == {k \in 1..SlotCount : ~Materials[k].isNull}

LinesOf(text, keyword) == SelectSeq(text, LAMBDA l : l[1] = keyword)
CountOf(text, keyword) == Len(LinesOf(text, keyword))

MaterialPCs == {"ExportMaterials", "Slot", "Texture", "TGA", "BMP",
                "Alternative", "AltTGA", "AltBMP", "SlotEnd"}
\* The geometry text is complete: the loop over the slots is over and the
\* text is about to be saved.
GeometryDone ==
    MeshAccepted(Mesh) /\ pc = "Faces" /\ MatIndex >= Len(Mesh.StaticMaterials)
\* The material text is complete: ExportMaterials has returned.
MaterialsDone == MeshAccepted(Mesh) /\ bSuccess /\ pc = "Return"

IsTextureFile(f) == f.path.dir = TexturesPath(FilePath)
\* A slot whose material resolves to a texture.
TexturedSlots == {k \in AssignedSlots : ~ResolveTexture(Materials[k]).isNull}

\* C1: the export returns success exactly when the geometry file was
\* written; whatever fails in the material export, the result stays and
\* the geometry file stays on disk with the text that was written (only a
\* material file saved at the very same path replaces it).
C1_ResultIsGeometryWrite ==
    /\ pc = "Done" => /\ result \in {"success", "failure"}
                      /\ result = "success" <=> FileExists(FilePath)
    /\ bSuccess =>
          /\ FileExists(FilePath)
          /\ \/ FileAt(FilePath).content = OBJContent
             \/ /\ MTLPath(FilePath) = FilePath
                /\ pc \in {"Return", "Done"}
                /\ FileAt(FilePath).content = MTLContent

\* A successful export in which the material file was not saved and a
\* textured slot exported no texture.
C1_Witness ==
    /\ pc = "Done" /\ result = "success" /\ MeshAccepted(Mesh)
    /\ ~FileExists(MTLPath(FilePath))
    /\ \E k \in TexturedSlots : exported[k] = <<>>
    /\ FileAt(FilePath).content = OBJContent

\* C2: when the geometry write fails the export returns failure and no
\* directory, texture file or material file is produced; the material
\* export runs only with the geometry file written.
C2_GeometryFailureAborts ==
    /\ (pc \in {"Return", "Done"} /\ ~bSuccess) =>
          /\ files = {}
          /\ directories = {}
          /\ MTLContent = <<>>
          /\ pc = "Done" => result = "failure"
    /\ pc \in MaterialPCs =>
          /\ bSuccess
          /\ FileExists(FilePath)
          /\ FileAt(FilePath).content = OBJContent

\* The geometry write of an accepted mesh with a textured slot failed.
C2_Witness ==
    /\ pc = "Done" /\ MeshAccepted(Mesh)
    /\ ~bSuccess /\ result = "failure"
    /\ TexturedSlots # {}

\* The block a slot gets, from what that slot alone did.
ExpectedBlock(k) ==
    IF Materials[k].isNull THEN <<>>
    ELSE MaterialBlock(SanitizeFileName(Materials[k].name))
            \o (IF exported[k] = <<>> THEN <<>>
                ELSE <<MapLine(exported[k][1])>>)
            \o << <<"">> >>

\* C3: a texture failure of one slot never stops the material export:
\* every slot with a material gets its block, with a map_Kd line exactly
\* when that slot's own texture was saved, and a slot whose texture
\* failed gets the block of an untextured material.
C3_TextureFailureIsLocal ==
    MaterialsDone =>
        /\ Len(exported) = SlotCount
        /\ CountOf(MTLContent, "newmtl") = Cardinality(AssignedSlots)
        /\ CountOf(MTLContent, "map_Kd")
              = Cardinality({k \in AssignedSlots : exported[k] # <<>>})
        /\ MTLContent = Flatten([k \in 1..SlotCount |-> ExpectedBlock(k)])

\* Two textured slots: the first exported nothing, the second did.
C3_Witness ==
    /\ MaterialsDone
    /\ \E j, k \in TexturedSlots :
          /\ j < k
          /\ exported[j] = <<>>
          /\ exported[k] # <<>>
    /\ CountOf(MTLContent, "newmtl") = 2
    /\ CountOf(MTLContent, "map_Kd") = 1

\* C4: a mesh with no vertices or no triangles is refused: the export
\* returns failure and writes no file.
C4_EmptyMeshRefused ==
    (/\ pc = "Done"
     /\ MeshAccepted(Mesh)
     /\ (Mesh.desc.Vertices = {} \/ Mesh.desc.Triangles = <<>>))
       => (result = "failure" /\ files = {})

\* --- the geometry text
Desc == Mesh.desc
InstanceIDs == DOMAIN Desc.VertexInstances
\* The 1-based place of an element in the enumeration of its array.
PlaceIn(S, x) == Cardinality({y \in S : y <= x})

\* The slot (1-based) a polygon is assigned to.
SlotOfPolygon(p) == Desc.Polygons[p].group + 1
\* The corners <<polygon, place in the polygon>> of all triangles whose
\* polygon is assigned to a slot that carries a material.
MaterialTriangles ==
    {<<p, t>> \in (DOMAIN Desc.Polygons) \X (1..Cardinality(InstanceIDs)) :
        /\ t \in DOMAIN Desc.Polygons[p].triangles
        /\ SlotOfPolygon(p) \in AssignedSlots}
TriangleAt(pt) == Desc.Triangles[Desc.Polygons[pt[1]].triangles[pt[2]]]

\* The uv and normal part of a face record.
UVNormalPart(face) == [j \in 1..3 |-> <<face[j + 1][2], face[j + 1][3]>>]
ExpectedUVNormalPart(corners) ==
    [j \in 1..3 |-> <<PlaceIn(InstanceIDs, corners[j]),
                      PlaceIn(InstanceIDs, corners[j])>>]

\* The positions of the geometry text that hold a given keyword.
PositionsOf(keyword) ==
    {q \in DOMAIN OBJContent : OBJContent[q][1] = keyword}
\* The slot whose group a position lies in: the slot of the last usemtl
\* line before it (0 before the first), counted among the assigned slots.
GroupOrdinal(q) == Cardinality({h \in PositionsOf("usemtl") : h < q})
SlotOrdinal(k) == Cardinality({j \in AssignedSlots : j <= k})

\* C5: the slots are visited in increasing order, each slot with a
\* material gives one usemtl line, and every triangle of a polygon whose
\* slot has a material gives exactly one face record, inside the group of
\* its own slot; there are as many face records as such triangles.
C5_FaceGrouping ==
    GeometryDone =>
        /\ LinesOf(OBJContent, "usemtl")
              = [n \in 1..Cardinality(AssignedSlots) |->
                    LET k == CHOOSE k \in AssignedSlots : SlotOrdinal(k) = n
                    IN  <<"usemtl", SanitizeFileName(Materials[k].name)>>]
        /\ Cardinality(PositionsOf("f")) = Cardinality(MaterialTriangles)
        /\ \A pt \in MaterialTriangles :
              LET here == {q \in PositionsOf("f") :
                              UVNormalPart(OBJContent[q])
                                  = ExpectedUVNormalPart(TriangleAt(pt))}
              IN  /\ Cardinality(here) = 1
                  /\ \A q \in here :
                        GroupOrdinal(q) = SlotOrdinal(SlotOfPolygon(pt[1]))
        /\ \A q \in PositionsOf("f") : GroupOrdinal(q) >= 1

\* Two groups with a face each, where the polygon of the second slot
\* comes first in the polygon enumeration.
C5_Witness ==
    /\ GeometryDone
    /\ Cardinality(AssignedSlots) = 2
    /\ Len(Desc.Polygons) = 2
    /\ SlotOfPolygon(1) = 2 /\ SlotOfPolygon(2) = 1
    /\ Cardinality(PositionsOf("f")) = 2

\* The lines of the geometry text that one assigned slot owns.
OwnGroup(k) ==
    GroupHeader(SanitizeFileName(Materials[k].name))
        \o Flatten([p \in DOMAIN Desc.Polygons |->
              IF SlotOfPolygon(p) # k THEN <<>>
              ELSE [t \in DOMAIN Desc.Polygons[p].triangles |->
                       LET c == Desc.Triangles[Desc.Polygons[p].triangles[t]]
                       IN  <<"f", Corner(Desc, VertexInstanceToIndex, c[1]),
                                  Corner(Desc, VertexInstanceToIndex, c[2]),
                                  Corner(Desc, VertexInstanceToIndex, c[3])>>]])
\* The geometry text after the vn records.
FaceSection ==
    LET start == 4 + Cardinality(Desc.Vertices) + 1
                   + 2 * (Cardinality(InstanceIDs) + 1)
    IN  SubSeq(OBJContent, start + 1, Len(OBJContent))
\* The triangles of the polygons assigned to an unassigned slot.
SkippedTriangles ==
    {<<p, t>> \in (DOMAIN Desc.Polygons) \X (1..Cardinality(InstanceIDs)) :
        /\ t \in DOMAIN Desc.Polygons[p].triangles
        /\ SlotOfPolygon(p) \in (1..SlotCount) \ AssignedSlots}

\* C6: a slot with no material gives no usemtl line, no face record and
\* no newmtl block, and every other slot gives the lines it gives on its
\* own: the face section and the material text are the own lines of the
\* assigned slots, one after the other.
C6_MaterialSkip ==
    /\ GeometryDone =>
          /\ CountOf(OBJContent, "usemtl") = Cardinality(AssignedSlots)
          /\ \A pt \in SkippedTriangles :
                \A q \in PositionsOf("f") :
                    UVNormalPart(OBJContent[q])
                        # ExpectedUVNormalPart(TriangleAt(pt))
          /\ FaceSection = Flatten([k \in 1..SlotCount |->
                IF k \in AssignedSlots THEN OwnGroup(k) ELSE <<>>])
    /\ MaterialsDone =>
          /\ CountOf(MTLContent, "newmtl") = Cardinality(AssignedSlots)
          /\ LinesOf(MTLContent, "newmtl")
                = LinesOf(Flatten([k \in 1..SlotCount |->
                      IF k \in AssignedSlots
                      THEN MaterialBlock(SanitizeFileName(Materials[k].name))
                      ELSE <<>>]), "newmtl")

\* An unassigned slot with polygons before an assigned slot with polygons,
\* after a finished material export.
C6_Witness ==
    /\ MaterialsDone
    /\ SkippedTriangles # {}
    /\ MaterialTriangles # {}
    /\ \E j \in (1..SlotCount) \ AssignedSlots : \E k \in AssignedSlots : j < k

\* The face records, and the triangles they were made from, in the order
\* of emission.
FaceLines == LinesOf(OBJContent, "f")
EmittedTriangles ==
    Flatten([k \in 1..SlotCount |->
        IF k \notin AssignedSlots THEN <<>>
        ELSE Flatten([p \in DOMAIN Desc.Polygons |->
                IF SlotOfPolygon(p) # k THEN <<>>
                ELSE [t \in DOMAIN Desc.Polygons[p].triangles |->
                         Desc.Triangles[Desc.Polygons[p].triangles[t]]]])])

\* C7: one vt and one vn record per vertex-instance, in enumeration order,
\* and in every face record the uv and the normal index of a corner are
\* the same number, the place of the corner's vertex-instance in that
\* enumeration: they name the vt and vn record of that very instance.
C7_InstanceIndices ==
    GeometryDone =>
        LET ids == GetElementIDs(InstanceIDs)
            vt == LinesOf(OBJContent, "vt")
            vn == LinesOf(OBJContent, "vn")
        IN  /\ vt = [k \in DOMAIN ids |-> UVRecord(ids[k])]
            /\ vn = [k \in DOMAIN ids |-> NormalRecord(ids[k])]
            /\ Len(FaceLines) = Len(EmittedTriangles)
            /\ \A n \in DOMAIN FaceLines : \A j \in 1..3 :
                  LET c == FaceLines[n][j + 1]
                      x == EmittedTriangles[n][j]
                  IN  /\ c[2] = c[3]
                      /\ c[2] = PlaceIn(InstanceIDs, x)
                      /\ c[2] \in 1..Len(ids)
                      /\ vt[c[2]] = UVRecord(x)
                      /\ vn[c[3]] = NormalRecord(x)

\* Face records of a mesh whose vertex-instance identifiers have gaps.
C7_Witness ==
    /\ GeometryDone
    /\ FaceLines # <<>>
    /\ \E x \in InstanceIDs : PlaceIn(InstanceIDs, x) # x + 1
    /\ Cardinality(InstanceIDs) >= 3

\* C8: one v record per vertex, in enumeration order, and the first index
\* of every corner of a face record is the place of the corner's vertex in
\* that enumeration: it names the v record of that very vertex.
C8_VertexIndices ==
    GeometryDone =>
        LET ids == GetElementIDs(Desc.Vertices)
            v == LinesOf(OBJContent, "v")
        IN  /\ v = [k \in DOMAIN ids |-> VertexRecord(ids[k])]
            /\ Len(FaceLines) = Len(EmittedTriangles)
            /\ \A n \in DOMAIN FaceLines : \A j \in 1..3 :
                  LET c == FaceLines[n][j + 1]
                      x == EmittedTriangles[n][j]
                  IN  /\ c[1] \in 1..Len(ids)
                      /\ c[1] = PlaceIn(Desc.Vertices, Desc.VertexInstances[x])
                      /\ v[c[1]] = VertexRecord(Desc.VertexInstances[x])

\* --- the texture of one slot
EncodeCalls == SelectSeq(calls, LAMBDA c : c.call = "Encode")
\* The secondary source was asked for the pixels.
SecondaryAttempted == \E n \in DOMAIN calls : calls[n].call \in {"GetPlatformData", "Lock"}
SecondaryLocked ==
    \E n \in DOMAIN calls : calls[n].call = "Lock" /\ calls[n].outcome = "Locked"
\* The primary source delivered a non-empty buffer.
PrimaryDelivered ==
    BaseColorTexture.SourceValid /\ Len(BaseColorTexture.RawData) > 0
SecondaryLargeEnough ==
    Len(BaseColorTexture.BulkData)
        >= BaseColorTexture.MipSizeX * BaseColorTexture.MipSizeY * 4
\* This slot is working on a 2D texture.
InTexture ==
    /\ pc \in {"TGA", "BMP", "Alternative", "AltTGA", "AltBMP", "SlotEnd"}
    /\ ~BaseColorTexture.isNull
    /\ BaseColorTexture.is2D
LastLine(text) == text[Len(text)]

\* C9, the claim as stated, with its last clause: TGA is tried before BMP,
\* BMP only after TGA saved no file, and in the whole export at most one
\* file is written for a texture.
C9_OneFilePerTexture ==
    /\ Len(EncodeCalls) >= 1 => EncodeCalls[1].format = "TGA"
    /\ Len(EncodeCalls) >= 2 => /\ EncodeCalls[2].format = "BMP"
                                /\ EncodeCalls[1].outcome # "Saved"
    /\ \A f, g \in files :
          (/\ IsTextureFile(f) /\ IsTextureFile(g)
           /\ GetBaseFilename(f.path.file) = GetBaseFilename(g.path.file))
             => f = g

\* The part of C9 that holds of every slot: in one slot TGA is tried
\* before BMP, BMP only after TGA saved no file and then always, at most
\* one file is saved, and the map_Kd line names the file that was saved.
C9_ChainPerSlot ==
    /\ Len(EncodeCalls) <= 2
    /\ Len(EncodeCalls) >= 1 => EncodeCalls[1].format = "TGA"
    /\ Len(EncodeCalls) >= 2 => /\ EncodeCalls[2].format = "BMP"
                                /\ EncodeCalls[1].outcome # "Saved"
    /\ (pc = "SlotEnd" /\ Len(EncodeCalls) = 1) =>
          EncodeCalls[1].outcome = "Saved"
    /\ Len(SavedFiles(calls)) <= 1
    /\ (pc = "SlotEnd" /\ SavedFiles(calls) # <<>>) =>
          /\ LastLine(MTLContent) = MapLine(SavedFiles(calls)[1])
          /\ FileExists(TexturePath(FilePath, SavedFiles(calls)[1]))
          /\ (Len(EncodeCalls) = 2 =>
                /\ LastLine(SavedFiles(calls)[1]) = ".bmp"
                /\ FileAt(TexturePath(FilePath, SavedFiles(calls)[1])).content[1]
                      = "BMP")

\* C10: the secondary source is asked exactly when the primary source is
\* invalid or delivers an empty buffer; its buffer is used only when it
\* holds at least width*height*4 bytes; when neither source gives usable
\* pixels the slot saves no file, gets no map_Kd line, and the loop goes on.
C10_SourceFallback ==
    /\ (InTexture /\ pc = "SlotEnd") =>
          /\ SecondaryAttempted <=> ~PrimaryDelivered
          /\ (SecondaryAttempted /\ EncodeCalls # <<>>) =>
                (SecondaryLocked /\ SecondaryLargeEnough)
          /\ (~PrimaryDelivered /\ ~(SecondaryLocked /\ SecondaryLargeEnough)) =>
                /\ EncodeCalls = <<>>
                /\ ~bTextureExported
                /\ LastLine(MTLContent) = <<"illum", "2">>
    /\ (InTexture /\ pc \in {"Alternative", "AltTGA", "AltBMP"}) =>
          ~PrimaryDelivered
    /\ (InTexture /\ pc \in {"AltTGA", "AltBMP"}) =>
          (SecondaryLocked /\ SecondaryLargeEnough)
    /\ (InTexture /\ pc \in {"TGA", "BMP"}) => ~SecondaryAttempted
    /\ pc = "Slot" => Len(exported) = SlotIndex

\* A texture with no source whose resident buffer was locked and found
\* smaller than width*height*4: the slot ends without a texture.
C10_Witness ==
    /\ InTexture /\ pc = "SlotEnd"
    /\ ~PrimaryDelivered
    /\ SecondaryLocked /\ ~SecondaryLargeEnough
    /\ EncodeCalls = <<>>

\* --- the material text
\* The positions of the material text that hold a given keyword.
MTLPositionsOf(keyword) ==
    {q \in DOMAIN MTLContent : MTLContent[q][1] = keyword}
\* The slot whose block a position lies in: the slot of the last newmtl
\* line at or before it.
BlockSlot(q) ==
    LET n == Cardinality({h \in MTLPositionsOf("newmtl") : h <= q})
    IN  CHOOSE k \in AssignedSlots : SlotOrdinal(k) = n
ContainerOf(ext) == IF ext = ".tga" THEN "TGA" ELSE "BMP"

\* C11: every map_Kd line reads 'map_Kd Textures/<file>', where <file> is
\* the sanitized name of the texture of the block's material followed by
\* the extension of a container, a file of that container is on disk at
\* Textures/<file>, written by this export; a block holds at most one
\* map_Kd line, and the block of a material without a texture holds none.
C11_MapLineNamesWrittenFile ==
    \A q \in MTLPositionsOf("map_Kd") :
        LET k == BlockSlot(q)
            Texture == ResolveTexture(Materials[k])
            ref == MTLContent[q][2]
            file == ref[2]
            ext == LastLine(file)
        IN  /\ Len(MTLContent[q]) = 2 /\ Len(ref) = 2 /\ ref[1] = "Textures"
            /\ ~Texture.isNull /\ Texture.is2D
            /\ ext \in {".tga", ".bmp"}
            /\ file = SanitizeFileName(Texture.name) \o <<ext>>
            /\ FileExists(TexturePath(FilePath, file))
            /\ FileAt(TexturePath(FilePath, file)).content[1] = ContainerOf(ext)
            /\ TexturePath(FilePath, file) # FilePath
            /\ \A h \in MTLPositionsOf("map_Kd") : BlockSlot(h) = k => h = q
            /\ \E n \in 1..Len(exported) \cup {SlotIndex + 1} :
                  /\ n = k
                  /\ IF n <= Len(exported) THEN exported[n] = <<file>>
                     ELSE SavedFiles(calls) = <<file>>

\* A finished material text with the block of an untextured material and
\* the block of a material whose texture was saved as BMP from the
\* resident data, after the TGA attempt saved nothing.
C11_Witness ==
    /\ MaterialsDone
    /\ CountOf(MTLContent, "newmtl") = 2
    /\ CountOf(MTLContent, "map_Kd") = 1
    /\ \E k \in AssignedSlots : ResolveTexture(Materials[k]).isNull
    /\ \E q \in MTLPositionsOf("map_Kd") :
          /\ LastLine(MTLContent[q][2][2]) = ".bmp"
          /\ FileExists(TexturePath(FilePath, MTLContent[q][2][2]))

\* --- the converted pixels
\* The primary source of this slot's texture was converted and accepted:
\* the first container attempt is about to take ColorData.
PrimaryConverted == InTexture /\ pc = "TGA"
Source == BaseColorTexture
PixelCount == Source.SizeX * Source.SizeY
ExactSize == Len(Source.RawData) = PixelCount * 4
Red(c) == c[1]
Green(c) == c[2]
Blue(c) == c[3]
Alpha(c) == c[4]

\* C12: an RGBA8 source buffer of exactly width*height*4 bytes is copied
\* as it is: pixel p of the converted buffer has red, green, blue and
\* alpha equal to bytes 0, 1, 2 and 3 of the p-th group of four bytes.
C12_RGBA8CopiedAsIs ==
    (PrimaryConverted /\ Source.Format = "TSF_RGBA8" /\ ExactSize) =>
        /\ Len(ColorData) = PixelCount
        /\ \A p \in 1..PixelCount :
              /\ Red(ColorData[p]) = Source.RawData[4 * (p - 1) + 1]
              /\ Green(ColorData[p]) = Source.RawData[4 * (p - 1) + 2]
              /\ Blue(ColorData[p]) = Source.RawData[4 * (p - 1) + 3]
              /\ Alpha(ColorData[p]) = Source.RawData[4 * (p - 1) + 4]

\* C13: from a BGRA8 buffer of exactly width*height*4 bytes and from a
\* Gray8 buffer of exactly width*height bytes the converted buffer has
\* width*height pixels; a BGRA8 pixel takes blue, green, red and alpha
\* from bytes 0, 1, 2 and 3 of its group of four (bytes 10, 20, 30, 255
\* give red 30, green 20, blue 10, alpha 255); a Gray8 pixel has red,
\* green and blue equal to its byte and alpha 255.
C13_BGRA8AndGray8 ==
    /\ (PrimaryConverted /\ Source.Format = "TSF_BGRA8" /\ ExactSize) =>
          /\ Len(ColorData) = PixelCount
          /\ Size = <<Source.SizeX, Source.SizeY>>
          /\ \A p \in 1..PixelCount :
                /\ Blue(ColorData[p]) = Source.RawData[4 * (p - 1) + 1]
                /\ Green(ColorData[p]) = Source.RawData[4 * (p - 1) + 2]
                /\ Red(ColorData[p]) = Source.RawData[4 * (p - 1) + 3]
                /\ Alpha(ColorData[p]) = Source.RawData[4 * (p - 1) + 4]
          /\ Source.RawData = <<10, 20, 30, 255>> =>
                ColorData = <<FColor(30, 20, 10, 255)>>
    /\ (/\ PrimaryConverted /\ Source.Format = "TSF_G8"
        /\ Len(Source.RawData) = PixelCount) =>
          /\ Len(ColorData) = PixelCount
          /\ Size = <<Source.SizeX, Source.SizeY>>
          /\ \A p \in 1..PixelCount :
                ColorData[p] = FColor(Source.RawData[p], Source.RawData[p],
                                      Source.RawData[p], 255)

\* A BGRA8 source of several pixels and of exact size was converted.
C13_Witness ==
    /\ PrimaryConverted
    /\ Source.Format = "TSF_BGRA8" /\ ExactSize
    /\ PixelCount = MaxSize * MaxSize
    /\ Red(ColorData[PixelCount]) = Source.RawData[4 * (PixelCount - 1) + 3]

\* The pixels (from 1) of the primary conversion that read no source byte.
UnreadPixels ==
    {p \in 1..PixelCount :
        \A i \in SourceReads(Source.Format, Len(Source.RawData),
                             Source.SizeX, Source.SizeY) :
            IF Source.Format = "TSF_G8" THEN i # p - 1
            ELSE i \notin (4 * (p - 1))..(4 * (p - 1) + 3)}
Zero == FColor(0, 0, 0, 0)

\* The part of C14 about the reads: whatever the format, the width, the
\* height and the length of the buffer, the primary and the secondary
\* conversion read no byte at or past the length of their buffer.
C14_NoReadPastEnd ==
    InTexture =>
        /\ \A i \in SourceReads(Source.Format, Len(Source.RawData),
                                Source.SizeX, Source.SizeY) :
              i < Len(Source.RawData)
        /\ \A i \in PlatformReads(Len(Source.BulkData), Source.MipSizeX,
                                  Source.MipSizeY) :
              i < Len(Source.BulkData)

\* C14: no read of a source buffer is made at or past its length, and
\* when the buffer is shorter than the pixels need, either no texture is
\* exported from it or the pixels that could not be read are zero.
C14_TruncatedSource ==
    /\ C14_NoReadPastEnd
    /\ (InTexture /\ PrimaryDelivered /\ pc \in {"TGA", "BMP", "SlotEnd"}) =>
          \/ EncodeCalls = <<>> /\ pc = "SlotEnd"
          \/ \A p \in UnreadPixels : ColorData[p] = Zero
    /\ (InTexture /\ ~PrimaryDelivered /\ ~SecondaryLargeEnough) =>
          EncodeCalls = <<>>

\* --- the names
ForbiddenCharacters == {" ", "/", "\\", ":", "*", "?", "\"", "<", ">", "|"}
\* out is what the sanitization must make of in.
IsSanitized(in, out) ==
    /\ Len(out) = Len(in)
    /\ \A k \in DOMAIN in :
          out[k] = IF in[k] \in ForbiddenCharacters THEN "_" ELSE in[k]
    /\ Range(out) \cap ForbiddenCharacters = {}
    /\ SanitizeFileName(out) = out
    /\ in = MetalRough =>
          out = <<"M", "e", "t", "a", "l", "_", "R", "o", "u", "g", "h", "_",
                  "0", "1">>
    /\ in = BaseColorMap =>
          out = <<"B", "a", "s", "e", "_", "C", "o", "l", "o", "r", "_",
                  "M", "a", "p">>

\* C15: every sanitized name the export emits (on a usemtl line, on a
\* newmtl line, as a texture file name) has the length of the name it was
\* made from, holds '_' where that name holds one of the ten characters
\* and the name's own character elsewhere, holds none of the ten
\* characters, and is left as it is by a second sanitization;
\* 'Metal/Rough:01' gives 'Metal_Rough_01' and 'Base Color*Map' gives
\* 'Base_Color_Map'.
C15_Sanitization ==
    MeshAccepted(Mesh) =>
        /\ \A q \in PositionsOf("usemtl") :
              IsSanitized(Materials[CHOOSE k \in AssignedSlots :
                                       SlotOrdinal(k) = GroupOrdinal(q) + 1].name,
                          OBJContent[q][2])
        /\ \A q \in MTLPositionsOf("newmtl") :
              IsSanitized(Materials[BlockSlot(q)].name, MTLContent[q][2])
        /\ \A n \in DOMAIN EncodeCalls :
              IsSanitized(BaseColorTexture.name,
                          GetBaseFilename(EncodeCalls[n].file))

\* A material and its texture whose names hold two different characters
\* of the ten, after the texture file was saved under the sanitized name.
C15_Witness ==
    /\ MaterialsDone
    /\ \E j, k \in DOMAIN Materials[1].name :
          /\ Materials[1].name[j] \in ForbiddenCharacters
          /\ Materials[1].name[k] \in ForbiddenCharacters \ {Materials[1].name[j]}
    /\ LinesOf(MTLContent, "newmtl")[1][2] # Materials[1].name
    /\ exported[1] # <<>>
    /\ FileExists(TexturePath(FilePath, exported[1][1]))

\* --- the names of the files
\* B is the file name without its extension: the name itself when it has
\* none, the name less its last extension otherwise.
IsBaseName(B, file) ==
    IF file # <<>> /\ LastLine(file) \in Extensions
    THEN file = Append(B, LastLine(file))
    ELSE file = B
\* '<dir>/<name>' as a path.
Below(dir, name) ==
    [dir |-> IF dir = <<>> THEN <<"">> ELSE dir, file |-> name]
MtllibLines == LinesOf(OBJContent, "mtllib")
\* The files on disk that are neither the geometry file nor a texture.
OtherFiles == {f \in files : f.path # FilePath /\ ~IsTextureFile(f)}

ThisMaterial == Materials[SlotIndex + 1]
\* The probed names (by their place in the probing order) that are bound
\* to a texture.
BoundNames ==
    {k \in DOMAIN ParamNames :
        /\ ParamNames[k] \in DOMAIN ThisMaterial.params
        /\ ~ThisMaterial.params[ParamNames[k]].isNull}
\* The non-empty entries of the material's own texture parameter list.
ListedTextures ==
    IF ThisMaterial.isInstance
    THEN {k \in DOMAIN ThisMaterial.TextureParameterValues :
             ~ThisMaterial.TextureParameterValues[k].isNull}
    ELSE {}
InSlot == pc \in {"Texture", "TGA", "BMP", "Alternative", "AltTGA", "AltBMP",
                  "SlotEnd"}

\* C17: the texture of a material is that of the first of the six names,
\* in probing order, that is bound to a texture; only when no name is
\* bound to one, it is the first non-empty entry of the material's
\* texture parameter list; when there is neither, the material has no
\* texture and nothing is exported for it.
C17_TextureSelection ==
    InSlot =>
        /\ BoundNames # {} =>
              BaseColorTexture = ThisMaterial.params[ParamNames[Min(BoundNames)]]
        /\ (BoundNames = {} /\ ListedTextures # {}) =>
              BaseColorTexture
                  = ThisMaterial.TextureParameterValues[Min(ListedTextures)]
        /\ (BoundNames = {} /\ ListedTextures = {}) =>
              /\ BaseColorTexture.isNull
              /\ calls = <<>>
              /\ CountOf(MTLContent, "map_Kd") = 0

\* What holds of the selection: probing stops at the first name the
\* material answers for, with or without a texture; the list is scanned
\* exactly when that left no texture.
AnsweredNames ==
    {k \in DOMAIN ParamNames : ParamNames[k] \in DOMAIN ThisMaterial.params}
C17_FirstAnsweredName ==
    InSlot =>
        LET probed == IF AnsweredNames = {} THEN NullTexture
                      ELSE ThisMaterial.params[ParamNames[Min(AnsweredNames)]]
        IN  /\ ~probed.isNull => BaseColorTexture = probed
            /\ (probed.isNull /\ ListedTextures # {}) =>
                  BaseColorTexture
                      = ThisMaterial.TextureParameterValues[Min(ListedTextures)]
            /\ (probed.isNull /\ ListedTextures = {}) =>
                  /\ BaseColorTexture.isNull
                  /\ calls = <<>>
                  /\ CountOf(MTLContent, "map_Kd") = 0

\* --- the two files side by side
\* The names on the lines of a text that hold a given keyword, in order.
NamesOn(text, keyword) ==
    LET lines == LinesOf(text, keyword)
    IN  [n \in DOMAIN lines |-> lines[n][2]]
\* Both files of the export are on disk, each at a path of its own.
BothFilesWritten ==
    /\ MeshAccepted(Mesh) /\ pc \in {"Return", "Done"} /\ bSuccess
    /\ MTLPath(FilePath) # FilePath
    /\ FileExists(FilePath) /\ FileExists(MTLPath(FilePath))

\* C18: the names on the usemtl lines of the geometry file written and
\* the names on the newmtl lines of the material file written are the
\* same sequence: the sanitized names of the slots that carry a material,
\* in slot order.
C18_UsemtlMatchesNewmtl ==
    BothFilesWritten =>
        LET usemtl == NamesOn(FileAt(FilePath).content, "usemtl")
            newmtl == NamesOn(FileAt(MTLPath(FilePath)).content, "newmtl")
        IN  /\ usemtl = newmtl
            /\ Len(usemtl) = Cardinality(AssignedSlots)
            /\ \A k \in AssignedSlots :
                  usemtl[SlotOrdinal(k)] = SanitizeFileName(Materials[k].name)

\* Both files written for two slots with a material, one of them under a
\* name that the sanitization changed.
C18_Witness ==
    /\ BothFilesWritten /\ pc = "Done"
    /\ Cardinality(AssignedSlots) = 2
    /\ Len(NamesOn(FileAt(MTLPath(FilePath)).content, "newmtl")) = 2
    /\ \E k \in AssignedSlots :
          SanitizeFileName(Materials[k].name) # Materials[k].name

\* --- the format asked for
\* glTF was asked for, at a path 'X.gltf', and the export was started.
GltfRequested ==
    /\ bExportAsGLTF /\ ~Mesh.isNull
    /\ ExportPath.file # <<>> /\ LastLine(ExportPath.file) = ".gltf"
    /\ pc \notin {"MergeAndExportMeshes", "ExportToGLTF"}
\* 'X.obj' for the path 'X.gltf'.
ObjPathOf(Path) ==
    [dir |-> Path.dir,
     file |-> Append(SubSeq(Path.file, 1, Len(Path.file) - 1), ".obj")]

\* What holds of a glTF request: the OBJ export runs on the path asked
\* for with every '.gltf' replaced by '.obj', nothing is written at the
\* path asked for, and the file written there holds the geometry text.
C19_GltfFallsBackToObj ==
    GltfRequested =>
        /\ FilePath = ReplaceInPath(ExportPath, ".gltf", ".obj")
        /\ \A f \in files : f.path # ExportPath /\ LastLine(f.path.file) # ".gltf"
        /\ bSuccess => FileExists(FilePath)
        /\ pc = "Done" => (result = "success" <=> bSuccess)

\* C19: a glTF request at 'X.gltf' is the OBJ export at 'X.obj': the
\* export runs with the mesh and the path 'X.obj' that an OBJ request at
\* 'X.obj' runs with, so that it writes the same files and returns the
\* same result, and nothing is written at 'X.gltf'.
C19_GltfEqualsObjRequest ==
    GltfRequested =>
        /\ FilePath = ObjPathOf(ExportPath)
        /\ \A f \in files : f.path # ExportPath
        /\ \A f \in files :
              \/ f.path = ObjPathOf(ExportPath)
              \/ f.path = MTLPath(ObjPathOf(ExportPath))
              \/ f.path.dir = TexturesPath(ObjPathOf(ExportPath))
        /\ pc = "Done" => (result = "success" <=> FileExists(ObjPathOf(ExportPath)))

====
